---- MODULE Spec2Model ----
(***************************************************************************)
(* Model of lab5/lab5_3/send.py: a Morse-code transmitter that toggles one *)
(* GPIO pin.  The script is sequential; the model follows it statement by  *)
(* statement (one action per GPIO call, sleep, print or loop test) so that *)
(* a KeyboardInterrupt can be delivered between any two of them and inside *)
(* any time.sleep.  Time is counted in milliseconds (DOT = 0.1 s = 100).   *)
(*                                                                         *)
(* A Python str is a sequence of one-character strings.  Characters that   *)
(* are not ASCII are written by code point: "u0131" is the dotless i,      *)
(* "u017F" the long s, "u00DF" the sharp s.                                *)
(***************************************************************************)
EXTENDS Integers, Sequences, FiniteSets, TLC

VARIABLES
    argv,         \* sys.argv: a sequence of str
    pc,           \* the statement about to run (or running, for a sleep)
    repetitions,  \* main's local, set at line 88
    message,      \* main's local, set at line 89
    i,            \* number of passes of the loop of line 104 started so far
    ci,           \* index in message of the character send_message is at
    char,         \* send_character's local after char.upper()
    morse,        \* send_character's local: MORSE_CODE[char]
    si,           \* index in morse of the symbol the loop of line 67 is at
    line,         \* level of LED_PIN as last written through the driver
    clock,        \* milliseconds slept so far
    log,          \* everything observable, in order: GPIO calls, prints, ...
    exc,          \* exception in flight while the finally clause runs
    exitCode      \* exit status once pc = "exited", -1 before

vars == <<argv, pc, repetitions, message, i, ci, char, morse, si, line,
          clock, log, exc, exitCode>>

(***************************************************************************)
(* Constants of the program.                                               *)
(***************************************************************************)
LED_PIN == 17
DOT == 100

\* Lines 12-15 as expressions of the unit that line 11 configures.
DashTwice(unit) == unit * 2

Dash(unit) == unit * 3

SymbolSpace(unit) == unit

LetterSpace(unit) == unit * 3

WordSpace(unit) == unit * 7

DASH == Dash(DOT)
SYMBOL_SPACE == SymbolSpace(DOT)
LETTER_SPACE == LetterSpace(DOT)
WORD_SPACE == WordSpace(DOT)

MORSE_CODE ==
    [c \in {"A"} |-> <<".", "-">>] @@ [c \in {"B"} |-> <<"-", ".", ".", ".">>] @@
    [c \in {"C"} |-> <<"-", ".", "-", ".">>] @@ [c \in {"D"} |-> <<"-", ".", ".">>] @@
    [c \in {"E"} |-> <<".">>] @@ [c \in {"F"} |-> <<".", ".", "-", ".">>] @@
    [c \in {"G"} |-> <<"-", "-", ".">>] @@ [c \in {"H"} |-> <<".", ".", ".", ".">>] @@
    [c \in {"I"} |-> <<".", ".">>] @@ [c \in {"J"} |-> <<".", "-", "-", "-">>] @@
    [c \in {"K"} |-> <<"-", ".", "-">>] @@ [c \in {"L"} |-> <<".", "-", ".", ".">>] @@
    [c \in {"M"} |-> <<"-", "-">>] @@ [c \in {"N"} |-> <<"-", ".">>] @@
    [c \in {"O"} |-> <<"-", "-", "-">>] @@ [c \in {"P"} |-> <<".", "-", "-", ".">>] @@
    [c \in {"Q"} |-> <<"-", "-", ".", "-">>] @@ [c \in {"R"} |-> <<".", "-", ".">>] @@
    [c \in {"S"} |-> <<".", ".", ".">>] @@ [c \in {"T"} |-> <<"-">>] @@
    [c \in {"U"} |-> <<".", ".", "-">>] @@ [c \in {"V"} |-> <<".", ".", ".", "-">>] @@
    [c \in {"W"} |-> <<".", "-", "-">>] @@ [c \in {"X"} |-> <<"-", ".", ".", "-">>] @@
    [c \in {"Y"} |-> <<"-", ".", "-", "-">>] @@ [c \in {"Z"} |-> <<"-", "-", ".", ".">>] @@
    [c \in {"0"} |-> <<"-", "-", "-", "-", "-">>] @@
    [c \in {"1"} |-> <<".", "-", "-", "-", "-">>] @@
    [c \in {"2"} |-> <<".", ".", "-", "-", "-">>] @@
    [c \in {"3"} |-> <<".", ".", ".", "-", "-">>] @@
    [c \in {"4"} |-> <<".", ".", ".", ".", "-">>] @@
    [c \in {"5"} |-> <<".", ".", ".", ".", ".">>] @@
    [c \in {"6"} |-> <<"-", ".", ".", ".", ".">>] @@
    [c \in {"7"} |-> <<"-", "-", ".", ".", ".">>] @@
    [c \in {"8"} |-> <<"-", "-", "-", ".", ".">>] @@
    [c \in {"9"} |-> <<"-", "-", "-", "-", ".">>] @@
    [c \in {" "} |-> <<"/">>]

(***************************************************************************)
(* Characters.                                                             *)
(***************************************************************************)
UpperLetters ==
    {"A", "B", "C", "D", "E", "F", "G", "H", "I", "J", "K", "L", "M",
     "N", "O", "P", "Q", "R", "S", "T", "U", "V", "W", "X", "Y", "Z"}

LowerLetters ==
    {"a", "b", "c", "d", "e", "f", "g", "h", "i", "j", "k", "l", "m",
     "n", "o", "p", "q", "r", "s", "t", "u", "v", "w", "x", "y", "z"}

Digits == {"0", "1", "2", "3", "4", "5", "6", "7", "8", "9"}

\* Characters outside A-Z, a-z, 0-9 and space that a message may hold.
OtherChars == {"!", "/", ".", "u0131", "u017F", "u00DF"}

AllChars == UpperLetters \cup LowerLetters \cup Digits \cup {" "} \cup OtherChars

LowerToUpper ==
    [c \in {"a"} |-> "A"] @@ [c \in {"b"} |-> "B"] @@ [c \in {"c"} |-> "C"] @@
    [c \in {"d"} |-> "D"] @@ [c \in {"e"} |-> "E"] @@ [c \in {"f"} |-> "F"] @@
    [c \in {"g"} |-> "G"] @@ [c \in {"h"} |-> "H"] @@ [c \in {"i"} |-> "I"] @@
    [c \in {"j"} |-> "J"] @@ [c \in {"k"} |-> "K"] @@ [c \in {"l"} |-> "L"] @@
    [c \in {"m"} |-> "M"] @@ [c \in {"n"} |-> "N"] @@ [c \in {"o"} |-> "O"] @@
    [c \in {"p"} |-> "P"] @@ [c \in {"q"} |-> "Q"] @@ [c \in {"r"} |-> "R"] @@
    [c \in {"s"} |-> "S"] @@ [c \in {"t"} |-> "T"] @@ [c \in {"u"} |-> "U"] @@
    [c \in {"v"} |-> "V"] @@ [c \in {"w"} |-> "W"] @@ [c \in {"x"} |-> "X"] @@
    [c \in {"y"} |-> "Y"] @@ [c \in {"z"} |-> "Z"] @@
    [c \in {"u0131"} |-> "I"] @@ [c \in {"u017F"} |-> "S"] @@
    [c \in {"u00DF"} |-> "SS"]

\* upper() left out: the character is looked up as it is.
UpperOmitted(c) == c

\* str.upper() of a one-character str (Unicode case mapping): the dotless i
\* maps to "I", the long s to "S", the sharp s to the two-character "SS".
Upper(c) == IF c \in DOMAIN LowerToUpper THEN LowerToUpper[c] ELSE c

(***************************************************************************)
(* int(str) of line 88, for strings of signs, digits, spaces and other     *)
(* characters: surrounding spaces are stripped, one sign is allowed, and   *)
(* at least one digit must follow; anything else raises ValueError.        *)
(***************************************************************************)
RECURSIVE StripLeft(_)
StripLeft(s) == IF s # <<>> /\ Head(s) = " " THEN StripLeft(Tail(s)) ELSE s

RECURSIVE StripRight(_)
StripRight(s) ==
    IF s # <<>> /\ s[Len(s)] = " " THEN StripRight(SubSeq(s, 1, Len(s) - 1)) ELSE s

Strip(s) == StripRight(StripLeft(s))

Unsigned(s) == IF s # <<>> /\ Head(s) \in {"+", "-"} THEN Tail(s) ELSE s

IsIntLiteral(s) ==
    LET body == Unsigned(Strip(s))
    IN  body # <<>> /\ \A k \in 1..Len(body) : body[k] \in Digits

DigitValue(d) ==
    CASE d = "0" -> 0 [] d = "1" -> 1 [] d = "2" -> 2 [] d = "3" -> 3
      [] d = "4" -> 4 [] d = "5" -> 5 [] d = "6" -> 6 [] d = "7" -> 7
      [] d = "8" -> 8 [] d = "9" -> 9

RECURSIVE Magnitude(_)
Magnitude(body) ==
    IF body = <<>> THEN 0
    ELSE 10 * Magnitude(SubSeq(body, 1, Len(body) - 1)) + DigitValue(body[Len(body)])

IntValue(s) ==
    LET t == Strip(s)
    IN  IF Head(t) = "-" THEN 0 - Magnitude(Unsigned(t)) ELSE Magnitude(Unsigned(t))

(***************************************************************************)
(* Inputs: the command lines the model is run on.                          *)
(***************************************************************************)
MaxLen == 4

\* sys.argv[1] candidates: "1" and "+3", values below 1 ("0", "-1", "00"),
\* and strings int() rejects ("", "x", "1.5", "-").
RepArgs ==
    {<<"1">>, <<"+", "3">>,
     <<"0">>, <<"-", "1">>, <<"0", "0">>,
     <<>>, <<"x">>, <<"1", ".", "5">>, <<"-">>}

\* Characters of the exhaustively enumerated messages: a one-dot letter, a
\* lower-case one-dash letter, the space and an unsupported character.
SmallAlphabet == {"E", "t", " ", "!"}

BoundedMessages == UNION {[1..n -> SmallAlphabet] : n \in 0..MaxLen}

SingleCharMessages == {<<c>> : c \in AllChars}

ExampleMessages ==
    {<<"S", "O", "S">>,
     <<"h", "e", "l", "l", "o", " ", "E", "S", "P", "3", "2">>}

Messages == BoundedMessages \cup SingleCharMessages \cup ExampleMessages

ProgramName == <<"send.py">>

CommandLines ==
    {<<ProgramName>>}
      \cup {<<ProgramName, r>> : r \in RepArgs}
      \cup {<<ProgramName, r, m>> : r \in RepArgs, m \in Messages}

(***************************************************************************)
(* The log: every GPIO call, print, call of send_message and interrupt, in *)
(* program order, stamped with the clock and with the pass (rep) and the   *)
(* character index (idx) the program is at.                                *)
(***************************************************************************)
Event(ev, what, tok, r, k) ==
    [ev |-> ev, what |-> what, tok |-> tok, at |-> clock, rep |-> r, idx |-> k]

Gpio(what) == Event("gpio", what, <<>>, i, ci)

Printed(what, tok) == Event("print", what, tok, i, ci)

\* A time.sleep that ran to its end; what names the hold.
Slept(what) == Event("sleep", what, <<>>, i, ci)

\* Leaving the interpreter with an exception in flight: the traceback path
\* exits with status 1; an unhandled KeyboardInterrupt ends the process by
\* SIGINT, which the shell reports as 130.
ExitStatus(e) ==
    CASE e = "none" -> 0
      [] e = "KeyboardInterrupt" -> 130
      [] OTHER -> 1

Init ==
    /\ argv \in CommandLines
    /\ pc = "main"
    /\ repetitions = 0
    /\ message = <<>>
    /\ i = 0
    /\ ci = 0
    /\ char = ""
    /\ morse = <<>>
    /\ si = 0
    /\ line = "NONE"
    /\ clock = 0
    /\ log = <<>>
    /\ exc = "none"
    /\ exitCode = -1

(***************************************************************************)
(* main, lines 82-99: argument validation and the banner.                  *)
(***************************************************************************)
CheckArgCount ==
    /\ pc = "main"
    /\ IF Len(argv) < 3
       THEN /\ log' = log \o <<Printed("usage", <<>>), Printed("example", <<>>)>>
            /\ pc' = "exited"
            /\ exitCode' = 1
       ELSE /\ pc' = "parse"
            /\ UNCHANGED <<log, exitCode>>
    /\ UNCHANGED <<argv, repetitions, message, i, ci, char, morse, si, line, clock, exc>>

ParseArguments ==
    /\ pc = "parse"
    /\ IF IsIntLiteral(argv[2])
       THEN /\ repetitions' = IntValue(argv[2])
            /\ message' = argv[3]
            /\ pc' = "range"
            /\ UNCHANGED <<log, exitCode>>
       ELSE /\ log' = Append(log, Printed("not_a_number", <<>>))
            /\ pc' = "exited"
            /\ exitCode' = 1
            /\ UNCHANGED <<repetitions, message>>
    /\ UNCHANGED <<argv, i, ci, char, morse, si, line, clock, exc>>

\* CheckRange with the test of line 94 written "< 0".
CheckRangeBelowZero ==
    /\ pc = "range"
    /\ IF repetitions < 0
       THEN /\ log' = Append(log, Printed("below_one", <<>>))
            /\ pc' = "exited"
            /\ exitCode' = 1
       ELSE /\ pc' = "banner"
            /\ UNCHANGED <<log, exitCode>>
    /\ UNCHANGED <<argv, repetitions, message, i, ci, char, morse, si, line, clock, exc>>

CheckRange ==
    /\ pc = "range"
    /\ IF repetitions < 1
       THEN /\ log' = Append(log, Printed("below_one", <<>>))
            /\ pc' = "exited"
            /\ exitCode' = 1
       ELSE /\ pc' = "banner"
            /\ UNCHANGED <<log, exitCode>>
    /\ UNCHANGED <<argv, repetitions, message, i, ci, char, morse, si, line, clock, exc>>

Banner ==
    /\ pc = "banner"
    /\ log' = log \o <<Printed("sending", <<>>), Printed("pattern", <<>>)>>
    /\ pc' = "setmode"
    /\ UNCHANGED <<argv, repetitions, message, i, ci, char, morse, si, line, clock,
                   exc, exitCode>>

(***************************************************************************)
(* setup_gpio, lines 30-34, entered from line 102 inside the try.          *)
(***************************************************************************)
SetupSetmode ==
    /\ pc = "setmode"
    /\ log' = Append(log, Gpio("setmode"))
    /\ pc' = "setwarnings"
    /\ UNCHANGED <<argv, repetitions, message, i, ci, char, morse, si, line, clock,
                   exc, exitCode>>

SetupSetwarnings ==
    /\ pc = "setwarnings"
    /\ log' = Append(log, Gpio("setwarnings"))
    /\ pc' = "setup"
    /\ UNCHANGED <<argv, repetitions, message, i, ci, char, morse, si, line, clock,
                   exc, exitCode>>

SetupPin ==
    /\ pc = "setup"
    /\ log' = Append(log, Gpio("setup"))
    /\ pc' = "setup_low"
    /\ UNCHANGED <<argv, repetitions, message, i, ci, char, morse, si, line, clock,
                   exc, exitCode>>

SetupLow ==
    /\ pc = "setup_low"
    /\ log' = Append(log, Gpio("LOW"))
    /\ line' = "LOW"
    /\ pc' = "for_i"
    /\ UNCHANGED <<argv, repetitions, message, i, ci, char, morse, si, clock,
                   exc, exitCode>>

(***************************************************************************)
(* main, lines 104-107: the repetition loop and the closing print.         *)
(***************************************************************************)
\* ForRepetition with one pass too many (range(repetitions + 1)).
ForRepetitionOneMore ==
    /\ pc = "for_i"
    /\ IF i <= repetitions
       THEN /\ i' = i + 1
            /\ ci' = 0
            /\ log' = Append(log, Event("call", "send_message", <<>>, i + 1, 0))
            /\ pc' = "for_char"
       ELSE /\ pc' = "complete"
            /\ UNCHANGED <<i, ci, log>>
    /\ UNCHANGED <<argv, repetitions, message, char, morse, si, line, clock,
                   exc, exitCode>>

ForRepetition ==
    /\ pc = "for_i"
    /\ IF i < repetitions
       THEN /\ i' = i + 1
            /\ ci' = 0
            /\ log' = Append(log, Event("call", "send_message", <<>>, i + 1, 0))
            /\ pc' = "for_char"
       ELSE /\ pc' = "complete"
            /\ UNCHANGED <<i, ci, log>>
    /\ UNCHANGED <<argv, repetitions, message, char, morse, si, line, clock,
                   exc, exitCode>>

PrintComplete ==
    /\ pc = "complete"
    /\ log' = Append(log, Printed("complete", <<>>))
    /\ pc' = "cleanup_low"
    /\ UNCHANGED <<argv, repetitions, message, i, ci, char, morse, si, line, clock,
                   exc, exitCode>>

(***************************************************************************)
(* send_message, lines 76-79.                                              *)
(***************************************************************************)
\* send_message without its closing print().
ForCharNoNewline ==
    /\ pc = "for_char"
    /\ IF ci < Len(message)
       THEN /\ ci' = ci + 1
            /\ pc' = "send_character"
       ELSE /\ pc' = "for_i"
            /\ UNCHANGED ci
    /\ UNCHANGED <<argv, repetitions, message, i, char, morse, si, line, clock, log,
                   exc, exitCode>>

ForChar ==
    /\ pc = "for_char"
    /\ IF ci < Len(message)
       THEN /\ ci' = ci + 1
            /\ pc' = "send_character"
            /\ UNCHANGED log
       ELSE /\ log' = Append(log, Printed("newline", <<>>))
            /\ pc' = "for_i"
            /\ UNCHANGED ci
    /\ UNCHANGED <<argv, repetitions, message, i, char, morse, si, line, clock,
                   exc, exitCode>>

(***************************************************************************)
(* send_character, lines 52-74.                                            *)
(***************************************************************************)
IsWordBoundary(c) == c = " "

\* The sleep of line 57 and the sleep of line 74.
WordHoldTimeWhole == WORD_SPACE

WordHoldTime == WORD_SPACE - LETTER_SPACE

LetterHoldTimeWhole == LETTER_SPACE

LetterHoldTime == LETTER_SPACE - SYMBOL_SPACE

InTable(c) == c \in DOMAIN MORSE_CODE

SendCharacter ==
    /\ pc = "send_character"
    /\ LET c == Upper(message[ci])
       IN  /\ char' = c
           /\ IF IsWordBoundary(c)
              THEN /\ pc' = "word_hold"
                   /\ UNCHANGED <<morse, si, log>>
              ELSE IF ~InTable(c)
              THEN /\ pc' = "for_char"
                   /\ UNCHANGED <<morse, si, log>>
              ELSE /\ morse' = MORSE_CODE[c]
                   /\ si' = 0
                   /\ log' = Append(log, Printed("morse", MORSE_CODE[c]))
                   /\ pc' = "for_symbol"
    /\ UNCHANGED <<argv, repetitions, message, i, ci, line, clock, exc, exitCode>>

WordHold ==
    /\ pc = "word_hold"
    /\ clock' = clock + WordHoldTime
    /\ log' = Append(log, Slept("word_hold"))
    /\ pc' = "for_char"
    /\ UNCHANGED <<argv, repetitions, message, i, ci, char, morse, si, line,
                   exc, exitCode>>

ForSymbol ==
    /\ pc = "for_symbol"
    /\ IF si < Len(morse)
       THEN /\ si' = si + 1
            /\ pc' = CASE morse[si + 1] = "." -> "dot_high"
                       [] morse[si + 1] = "-" -> "dash_high"
                       [] OTHER -> "for_symbol"
       ELSE /\ pc' = "letter_hold"
            /\ UNCHANGED si
    /\ UNCHANGED <<argv, repetitions, message, i, ci, char, morse, line, clock, log,
                   exc, exitCode>>

LetterHold ==
    /\ pc = "letter_hold"
    /\ clock' = clock + LetterHoldTime
    /\ log' = Append(log, Slept("letter_hold"))
    /\ pc' = "for_char"
    /\ UNCHANGED <<argv, repetitions, message, i, ci, char, morse, si, line,
                   exc, exitCode>>

(***************************************************************************)
(* send_dot, lines 40-44, and send_dash, lines 46-50.                      *)
(***************************************************************************)
SendDotHigh ==
    /\ pc = "dot_high"
    /\ log' = Append(log, Gpio("HIGH"))
    /\ line' = "HIGH"
    /\ pc' = "dot_hold"
    /\ UNCHANGED <<argv, repetitions, message, i, ci, char, morse, si, clock,
                   exc, exitCode>>

SendDotHold ==
    /\ pc = "dot_hold"
    /\ clock' = clock + DOT
    /\ log' = Append(log, Slept("dot_hold"))
    /\ pc' = "dot_low"
    /\ UNCHANGED <<argv, repetitions, message, i, ci, char, morse, si, line,
                   exc, exitCode>>

\* send_dot without the GPIO.output(LED_PIN, GPIO.LOW) of line 43.
SendDotLowOmitted ==
    /\ pc = "dot_low"
    /\ pc' = "dot_gap"
    /\ UNCHANGED <<argv, repetitions, message, i, ci, char, morse, si, line,
                   clock, log, exc, exitCode>>

SendDotLow ==
    /\ pc = "dot_low"
    /\ log' = Append(log, Gpio("LOW"))
    /\ line' = "LOW"
    /\ pc' = "dot_gap"
    /\ UNCHANGED <<argv, repetitions, message, i, ci, char, morse, si, clock,
                   exc, exitCode>>

\* send_dot without the time.sleep(SYMBOL_SPACE) of line 44.
SendDotGapOmitted ==
    /\ pc = "dot_gap"
    /\ log' = Append(log, Slept("dot_gap"))
    /\ pc' = "for_symbol"
    /\ UNCHANGED <<argv, repetitions, message, i, ci, char, morse, si, line,
                   clock, exc, exitCode>>

SendDotGap ==
    /\ pc = "dot_gap"
    /\ clock' = clock + SYMBOL_SPACE
    /\ log' = Append(log, Slept("dot_gap"))
    /\ pc' = "for_symbol"
    /\ UNCHANGED <<argv, repetitions, message, i, ci, char, morse, si, line,
                   exc, exitCode>>

SendDashHigh ==
    /\ pc = "dash_high"
    /\ log' = Append(log, Gpio("HIGH"))
    /\ line' = "HIGH"
    /\ pc' = "dash_hold"
    /\ UNCHANGED <<argv, repetitions, message, i, ci, char, morse, si, clock,
                   exc, exitCode>>

SendDashHold ==
    /\ pc = "dash_hold"
    /\ clock' = clock + DASH
    /\ log' = Append(log, Slept("dash_hold"))
    /\ pc' = "dash_low"
    /\ UNCHANGED <<argv, repetitions, message, i, ci, char, morse, si, line,
                   exc, exitCode>>

SendDashLow ==
    /\ pc = "dash_low"
    /\ log' = Append(log, Gpio("LOW"))
    /\ line' = "LOW"
    /\ pc' = "dash_gap"
    /\ UNCHANGED <<argv, repetitions, message, i, ci, char, morse, si, clock,
                   exc, exitCode>>

SendDashGap ==
    /\ pc = "dash_gap"
    /\ clock' = clock + SYMBOL_SPACE
    /\ log' = Append(log, Slept("dash_gap"))
    /\ pc' = "for_symbol"
    /\ UNCHANGED <<argv, repetitions, message, i, ci, char, morse, si, line,
                   exc, exitCode>>

(***************************************************************************)
(* main, lines 109-112: the except clause, then the finally clause, which  *)
(* runs cleanup_gpio (lines 36-38) and then either lets main return or     *)
(* re-raises the exception in flight.                                      *)
(***************************************************************************)
\* The except clause written inside the loop: after the notice the next
\* pass starts.
ExceptKeyboardInterruptResumes ==
    /\ pc = "except"
    /\ log' = Append(log, Printed("interrupted", <<>>))
    /\ pc' = "for_i"
    /\ UNCHANGED <<argv, repetitions, message, i, ci, char, morse, si, line, clock,
                   exc, exitCode>>

ExceptKeyboardInterrupt ==
    /\ pc = "except"
    /\ log' = Append(log, Printed("interrupted", <<>>))
    /\ pc' = "cleanup_low"
    /\ UNCHANGED <<argv, repetitions, message, i, ci, char, morse, si, line, clock,
                   exc, exitCode>>

\* cleanup_gpio without its GPIO.output(LED_PIN, GPIO.LOW).
CleanupLowOmitted ==
    /\ pc = "cleanup_low"
    /\ pc' = "cleanup_release"
    /\ UNCHANGED <<argv, repetitions, message, i, ci, char, morse, si, line, clock,
                   log, exc, exitCode>>

CleanupLow ==
    /\ pc = "cleanup_low"
    /\ log' = Append(log, Gpio("LOW"))
    /\ line' = "LOW"
    /\ pc' = "cleanup_release"
    /\ UNCHANGED <<argv, repetitions, message, i, ci, char, morse, si, clock,
                   exc, exitCode>>

CleanupRelease ==
    /\ pc = "cleanup_release"
    /\ log' = Append(log, Gpio("cleanup"))
    /\ line' = "RELEASED"
    /\ pc' = "exited"
    /\ exitCode' = ExitStatus(exc)
    /\ UNCHANGED <<argv, repetitions, message, i, ci, char, morse, si, clock, exc>>

(***************************************************************************)
(* Where the program is: before the try of line 101, in its body, in the   *)
(* except clause, in the finally clause.                                   *)
(***************************************************************************)
BeforeTry == {"main", "parse", "range", "banner"}

ExceptClause == {"except"}

FinallyClause == {"cleanup_low", "cleanup_release"}

Holds == {"dot_hold", "dot_gap", "dash_hold", "dash_gap", "letter_hold", "word_hold"}

GpioCalls ==
    {"setmode", "setwarnings", "setup", "setup_low", "dot_high", "dot_low",
     "dash_high", "dash_low", "cleanup_low", "cleanup_release"}

TryBody ==
    {"setmode", "setwarnings", "setup", "setup_low", "for_i", "complete",
     "for_char", "send_character", "for_symbol", "dot_high", "dot_low",
     "dash_high", "dash_low"} \cup Holds

\* The duration of the time.sleep at a hold.
HoldTime(p) ==
    CASE p = "dot_hold" -> DOT
      [] p = "dash_hold" -> DASH
      [] p \in {"dot_gap", "dash_gap"} -> SYMBOL_SPACE
      [] p = "letter_hold" -> LetterHoldTime
      [] p = "word_hold" -> WordHoldTime

\* The driver call made at a statement.
GpioCallAt(p) ==
    CASE p = "setmode" -> "setmode"
      [] p = "setwarnings" -> "setwarnings"
      [] p = "setup" -> "setup"
      [] p \in {"setup_low", "dot_low", "dash_low", "cleanup_low"} -> "LOW"
      [] p \in {"dot_high", "dash_high"} -> "HIGH"
      [] p = "cleanup_release" -> "cleanup"

\* Raise without the except clause of line 109: a KeyboardInterrupt of the
\* try body goes to the finally clause and on out of main.
RaiseUncaught(p, e) ==
    IF p \in TryBody \cup ExceptClause
    THEN /\ pc' = "cleanup_low"
         /\ exc' = e
         /\ UNCHANGED exitCode
    ELSE /\ pc' = "exited"
         /\ exc' = e
         /\ exitCode' = ExitStatus(e)

\* Where an exception raised at statement p takes control: to the except
\* clause when it is a KeyboardInterrupt raised in the try body, to the
\* finally clause with the exception in flight when it is raised in the try
\* body but is no KeyboardInterrupt or is raised in the except clause, and
\* out of the program otherwise.
Raise(p, e) ==
    IF p \in TryBody /\ e = "KeyboardInterrupt"
    THEN /\ pc' = "except"
         /\ UNCHANGED <<exc, exitCode>>
    ELSE IF p \in TryBody \cup ExceptClause
    THEN /\ pc' = "cleanup_low"
         /\ exc' = e
         /\ UNCHANGED exitCode
    ELSE /\ pc' = "exited"
         /\ exc' = e
         /\ exitCode' = ExitStatus(e)

(***************************************************************************)
(* KeyboardInterrupt: SIGINT may arrive at any statement; inside a sleep   *)
(* it cuts the sleep short after none or half of its duration.             *)
(***************************************************************************)
Interrupt ==
    /\ pc # "exited"
    /\ log' = Append(log, Event("interrupt", pc, <<>>, i, ci))
    /\ IF pc \in Holds
       THEN \E elapsed \in {0, HoldTime(pc) \div 2} : clock' = clock + elapsed
       ELSE UNCHANGED clock
    /\ Raise(pc, "KeyboardInterrupt")
    /\ UNCHANGED <<argv, repetitions, message, i, ci, char, morse, si, line>>

(***************************************************************************)
(* A driver call that raises (RuntimeError) instead of acting.             *)
(***************************************************************************)
DriverFault ==
    /\ pc \in GpioCalls
    /\ log' = Append(log, Event("gpio_raise", GpioCallAt(pc), <<>>, i, ci))
    /\ Raise(pc, "RuntimeError")
    /\ UNCHANGED <<argv, repetitions, message, i, ci, char, morse, si, line, clock>>

Next ==
    \/ CheckArgCount
    \/ ParseArguments
    \/ CheckRange
    \/ Banner
    \/ SetupSetmode
    \/ SetupSetwarnings
    \/ SetupPin
    \/ SetupLow
    \/ ForRepetition
    \/ PrintComplete
    \/ ForChar
    \/ SendCharacter
    \/ WordHold
    \/ ForSymbol
    \/ LetterHold
    \/ SendDotHigh
    \/ SendDotHold
    \/ SendDotLow
    \/ SendDotGap
    \/ SendDashHigh
    \/ SendDashHold
    \/ SendDashLow
    \/ SendDashGap
    \/ ExceptKeyboardInterrupt
    \/ CleanupLow
    \/ CleanupRelease
    \/ Interrupt

Spec == Init /\ [][Next]_vars

\* The program on a driver whose calls may raise.
NextFault == Next \/ DriverFault

SpecFault == Init /\ [][NextFault]_vars

(***************************************************************************)
(* Observations on the log.                                                *)
(***************************************************************************)
Done == pc = "exited"

GpioLog == SelectSeq(log, LAMBDA e : e.ev = "gpio")

Interrupts == SelectSeq(log, LAMBDA e : e.ev = "interrupt")

Uninterrupted == Interrupts = <<>>

AlphaNum == UpperLetters \cup LowerLetters \cup Digits

\* The position of an event's character in the stream of characters that
\* the passes send one after the other, and the character at a position.
StreamPos(e) == (e.rep - 1) * Len(message) + e.idx

StreamChar(p) == message[((p - 1) % Len(message)) + 1]

SpacesBetween(a, b) ==
    Cardinality({p \in (StreamPos(a) + 1)..(StreamPos(b) - 1) : StreamChar(p) = " "})

\* A pulse has just started: the latest event is the driver call that
\* asserts the line.  Every pulse of a run is the latest one in the state
\* that follows its GPIO.output(LED_PIN, GPIO.HIGH).
PulseStarted == log # <<>> /\ log[Len(log)].ev = "gpio" /\ log[Len(log)].what = "HIGH"

\* In the driver calls g, k and k+1 are the end of one pulse and the start
\* of the next one, which belongs to another character.
PulseGapAt(g, k) ==
    /\ k \in 2..(Len(g) - 1)
    /\ g[k - 1].what = "HIGH"
    /\ g[k].what = "LOW"
    /\ g[k + 1].what = "HIGH"
    /\ StreamPos(g[k]) # StreamPos(g[k + 1])

SilentInterval(g, k) == g[k + 1].at - g[k].at

SamePass(g, k) == g[k].rep = g[k + 1].rep

\* The latest pulse and the one before it are pulses of two characters of
\* the same pass.
LatestPair ==
    /\ PulseStarted
    /\ LET g == GpioLog
       IN  PulseGapAt(g, Len(g) - 1) /\ SamePass(g, Len(g) - 1)

\* The number of space characters between those two characters, and the
\* silence between the two pulses.
LatestSpaces == LET g == GpioLog IN SpacesBetween(g[Len(g) - 1], g[Len(g)])

LatestSilence == LET g == GpioLog IN SilentInterval(g, Len(g) - 1)

\* C1 as stated: within a message, whenever a word boundary (one or more
\* space characters) lies between two pulses that follow each other, the
\* silence between them is exactly WORD_SPACE (7 units).
C1_WordGapAnyBoundary ==
    LatestPair /\ LatestSpaces >= 1 => LatestSilence = 7 * DOT

\* C1 amended: the silence between two pulses that follow each other within
\* a message and have n >= 1 space characters between them is LETTER_SPACE
\* plus n times (WORD_SPACE - LETTER_SPACE): exactly WORD_SPACE (7 units)
\* for a single space, 4 units more for every further space.
C1_WordGapPerSpace ==
    LatestPair /\ LatestSpaces >= 1
        => /\ LatestSilence = 3 * DOT + LatestSpaces * (7 * DOT - 3 * DOT)
           /\ LatestSpaces = 1 => LatestSilence = 7 * DOT

C1_Witness == LatestPair /\ LatestSpaces = 1 /\ LatestSilence = 7 * DOT

\* C2: within a pass, when no space lies between two characters that both
\* emit pulses, the silence from the end of the last pulse of the first to
\* the start of the first pulse of the second is exactly LETTER_SPACE
\* (3 units), not LETTER_SPACE + SYMBOL_SPACE (4 units).
C2_LetterGap ==
    LatestPair /\ LatestSpaces = 0 => LatestSilence = 3 * DOT

C2_Witness ==
    /\ LatestPair
    /\ LatestSpaces = 0
    /\ LatestSilence = 3 * DOT
    /\ message[GpioLog[Len(GpioLog) - 1].idx] \in AlphaNum
    /\ message[GpioLog[Len(GpioLog)].idx] \in AlphaNum

(***************************************************************************)
(* Interruptions.                                                          *)
(***************************************************************************)
\* The run was interrupted once, and that inside a time.sleep.
SingleHoldInterrupt == Len(Interrupts) = 1 /\ Interrupts[1].what \in Holds

FirstInterruptIndex ==
    CHOOSE k \in 1..Len(log) :
        log[k].ev = "interrupt" /\ \A j \in 1..(k - 1) : log[j].ev # "interrupt"

LogAfterInterrupt == SubSeq(log, FirstInterruptIndex + 1, Len(log))

Kinds(events) == [k \in 1..Len(events) |-> <<events[k].ev, events[k].what>>]

IsDeassert(e) == e.ev = "gpio" /\ e.what = "LOW"

IsNotice(e) == e.ev = "print" /\ e.what = "interrupted"

\* C3 as stated: after an interruption raised during a hold the line is
\* deasserted exactly once, and that deassertion comes before the process
\* reports the interruption (and exits).
C3_DeassertBeforeReport ==
    Done /\ SingleHoldInterrupt
        => LET a == LogAfterInterrupt
               lows == {k \in 1..Len(a) : IsDeassert(a[k])}
               notices == {k \in 1..Len(a) : IsNotice(a[k])}
           IN  /\ Cardinality(lows) = 1
               /\ \E n \in notices : \A k \in lows : k < n

\* C3 amended: after an interruption raised during a hold the line is
\* deasserted exactly once; that deassertion comes after the interruption
\* notice is printed and before the line is released and the process exits.
C3_DeassertOnceBeforeExit ==
    Done /\ SingleHoldInterrupt
        => /\ Kinds(LogAfterInterrupt) =
                << <<"print", "interrupted">>, <<"gpio", "LOW">>, <<"gpio", "cleanup">> >>
           /\ line = "RELEASED"

C3_Witness ==
    /\ Done
    /\ SingleHoldInterrupt
    /\ Interrupts[1].what = "dash_hold"
    /\ Cardinality({k \in 1..Len(LogAfterInterrupt) : IsDeassert(LogAfterInterrupt[k])}) = 1

(***************************************************************************)
(* The pin lifecycle.                                                      *)
(***************************************************************************)
\* The banner of lines 98-99 was printed: validation passed and the try of
\* line 101 was entered.
RunStarted == \E k \in 1..Len(log) : log[k].ev = "print" /\ log[k].what = "pattern"

GpioOps == [k \in 1..Len(GpioLog) |-> GpioLog[k].what]

\* C4: every run that passes validation, however it ends (normally, or by
\* an interruption at any point from the start of pin acquisition on), makes
\* the driver calls initialize (the four calls of setup_gpio), then asserts
\* and deasserts, then a last deassert, then release: GPIO.cleanup is called
\* exactly once, last, right after a write of LOW.
C4_Lifecycle ==
    Done /\ RunStarted /\ Len(Interrupts) <= 1
        => LET g == GpioOps
           IN  /\ Len(g) >= 6
               /\ SubSeq(g, 1, 4) = <<"setmode", "setwarnings", "setup", "LOW">>
               /\ \A k \in 5..(Len(g) - 2) : g[k] \in {"HIGH", "LOW"}
               /\ g[Len(g) - 1] = "LOW"
               /\ g[Len(g)] = "cleanup"

(***************************************************************************)
(* Argument validation.                                                    *)
(***************************************************************************)
\* The candidates for sys.argv[1] that are no integer or are below 1.
RejectedRepArgs ==
    {<<"0">>, <<"-", "1">>, <<"0", "0">>, <<>>, <<"x">>, <<"1", ".", "5">>, <<"-">>}

ValidationFails == Len(argv) < 3 \/ argv[2] \in RejectedRepArgs

NoDriverCall == \A k \in 1..Len(log) : log[k].ev \notin {"gpio", "gpio_raise"}

\* C5: a command line that fails validation (fewer than two arguments, a
\* repetitions argument that is no integer, repetitions < 1) makes no driver
\* call at all, and the process ends with exit code 1.
C5_ValidationFailure ==
    ValidationFails
        => /\ NoDriverCall
           /\ line = "NONE"
           /\ pc \in BeforeTry \cup {"exited"}
           /\ Done /\ Uninterrupted => exitCode = 1

C5_Witness ==
    /\ Done
    /\ Uninterrupted
    /\ argv = <<ProgramName, <<"0">>, <<"A">>>>
    /\ exitCode = 1
    /\ NoDriverCall

(***************************************************************************)
(* The pulse train of an uninterrupted run.                                *)
(***************************************************************************)
CompletedRun == Done /\ Uninterrupted /\ exitCode = 0

\* The symbols send_character sends for a character, and send_message for
\* a message.
CharSymbols(c) ==
    IF Upper(c) = " " \/ Upper(c) \notin DOMAIN MORSE_CODE THEN <<>> ELSE MORSE_CODE[Upper(c)]

RECURSIVE MessageSymbols(_)
MessageSymbols(m) ==
    IF m = <<>> THEN <<>> ELSE CharSymbols(Head(m)) \o MessageSymbols(Tail(m))

RECURSIVE Repeat(_, _)
Repeat(seq, n) == IF n = 0 THEN <<>> ELSE seq \o Repeat(seq, n - 1)

\* In a completed run the driver calls are the four of setup_gpio, then one
\* HIGH and one LOW per pulse, then the two of cleanup_gpio.  The pulse
\* train reads each pulse by the time the line stayed high.
PulsesWellFormed ==
    LET g == GpioLog
    IN  /\ Len(g) >= 6
        /\ (Len(g) - 6) % 2 = 0
        /\ \A n \in 1..((Len(g) - 6) \div 2) :
              g[3 + 2 * n].what = "HIGH" /\ g[4 + 2 * n].what = "LOW"

PulseTrain ==
    LET g == GpioLog
    IN  [n \in 1..((Len(g) - 6) \div 2) |->
            CASE g[4 + 2 * n].at - g[3 + 2 * n].at = DOT -> "."
              [] g[4 + 2 * n].at - g[3 + 2 * n].at = 3 * DOT -> "-"
              [] OTHER -> "?"]

PulsePasses ==
    LET g == GpioLog
    IN  [n \in 1..((Len(g) - 6) \div 2) |-> g[3 + 2 * n].rep]

Calls == SelectSeq(log, LAMBDA e : e.ev = "call" /\ e.what = "send_message")

SOS == <<"S", "O", "S">>

SOSPass == <<".", ".", ".", "-", "-", "-", ".", ".", ".">>

\* C6: an uninterrupted run with repetitions N >= 1 calls send_message
\* exactly N times, one after the other, and each pass emits the pulses of
\* the message in character order; "SOS" three times gives three times
\* dot dot dot, dash dash dash, dot dot dot: 27 pulses.
C6_Repetitions ==
    CompletedRun
        => /\ repetitions >= 1
           /\ Len(Calls) = repetitions
           /\ \A r \in 1..Len(Calls) : Calls[r].rep = r
           /\ PulsesWellFormed
           /\ PulseTrain = Repeat(MessageSymbols(message), repetitions)
           /\ \A n \in 1..Len(PulseTrain) :
                 PulsePasses[n] = ((n - 1) \div Len(MessageSymbols(message))) + 1
           /\ message = SOS /\ repetitions = 3
                => PulseTrain = SOSPass \o SOSPass \o SOSPass /\ Len(PulseTrain) = 27

C6_Witness ==
    /\ CompletedRun
    /\ message = SOS
    /\ repetitions = 3
    /\ Len(PulseTrain) = 27

(***************************************************************************)
(* Characters outside the supported set.                                   *)
(***************************************************************************)
LastEvent == log[Len(log)]

\* What send_character can do for a character: print its token, assert
\* the line, sleep.
IsCharacterOutput(e) ==
    \/ e.ev = "print" /\ e.what = "morse"
    \/ e.ev = "gpio" /\ e.what = "HIGH"
    \/ e.ev = "sleep"

\* C7: a character that is no letter A-Z or a-z, no digit and no space is
\* treated as unsupported: send_character prints no token for it, emits no
\* pulse and sleeps no time.
C7_UnsupportedSilent ==
    log # <<>> /\ IsCharacterOutput(LastEvent)
        => message[LastEvent.idx] \in AlphaNum \cup {" "}

(***************************************************************************)
(* Driver calls that raise.                                                *)
(***************************************************************************)
DriverRaised ==
    \E k \in 1..Len(log) :
        log[k].ev = "gpio_raise" /\ log[k].what \in {"setmode", "setwarnings", "setup", "HIGH", "LOW"}

ReleaseAttempted ==
    \E k \in 1..Len(log) : log[k].ev \in {"gpio", "gpio_raise"} /\ log[k].what = "cleanup"

\* C8: when a driver call (initialize, assert or deassert) raises during a
\* run, GPIO.cleanup is still attempted before the run is left.
C8_ReleaseOnDriverFailure ==
    Done /\ Uninterrupted /\ DriverRaised => ReleaseAttempted

(***************************************************************************)
(* Exit codes.                                                             *)
(***************************************************************************)
NoticePrinted == \E k \in 1..Len(log) : IsNotice(log[k])

CleanupReached == \E k \in 1..Len(log) : log[k].ev = "gpio" /\ log[k].what = "cleanup"

\* C9: an interruption raised during a hold is caught by main: the notice
\* is printed, cleanup_gpio runs, nothing propagates and the exit code is 0;
\* exit code 1 occurs only when argument validation fails.
C9_InterruptCaught ==
    /\ Done /\ SingleHoldInterrupt
          => NoticePrinted /\ CleanupReached /\ exc = "none" /\ exitCode = 0
    /\ Done /\ exitCode = 1 => ValidationFails

C9_Witness ==
    /\ Done
    /\ SingleHoldInterrupt
    /\ Interrupts[1].what = "letter_hold"
    /\ NoticePrinted
    /\ exitCode = 0

(***************************************************************************)
(* Coverage of the table.                                                  *)
(***************************************************************************)
TokensOf(r, k) ==
    SelectSeq(log, LAMBDA e : e.ev = "print" /\ e.what = "morse" /\ e.rep = r /\ e.idx = k)

PulsesOf(r, k) ==
    SelectSeq(log, LAMBDA e : e.ev = "gpio" /\ e.what = "HIGH" /\ e.rep = r /\ e.idx = k)

WordHoldsOf(r, k) ==
    SelectSeq(log, LAMBDA e : e.ev = "sleep" /\ e.what = "word_hold" /\ e.rep = r /\ e.idx = k)

HelloESP32 == <<"h", "e", "l", "l", "o", " ", "E", "S", "P", "3", "2">>

\* C10: in every pass every character of A-Z, a-z, 0-9 is encoded: one
\* token is printed for it, not empty and made of dots and dashes only, and
\* one pulse is emitted per symbol, so at least one; a space prints no
\* token, emits no pulse and is slept through as a word boundary.
C10_TableCoverage ==
    CompletedRun
        => \A r \in 1..repetitions, k \in 1..Len(message) :
              /\ message[k] \in AlphaNum
                    => /\ Len(TokensOf(r, k)) = 1
                       /\ Len(TokensOf(r, k)[1].tok) >= 1
                       /\ \A n \in 1..Len(TokensOf(r, k)[1].tok) :
                             TokensOf(r, k)[1].tok[n] \in {".", "-"}
                       /\ Len(PulsesOf(r, k)) = Len(TokensOf(r, k)[1].tok)
              /\ message[k] = " "
                    => /\ TokensOf(r, k) = <<>>
                       /\ PulsesOf(r, k) = <<>>
                       /\ Len(WordHoldsOf(r, k)) = 1

C10_Witness ==
    /\ CompletedRun
    /\ message = HelloESP32
    /\ \A k \in 1..Len(message) : message[k] # " " => Len(PulsesOf(1, k)) >= 1

(***************************************************************************)
(* Case-insensitivity.                                                     *)
(***************************************************************************)
UpperSeq ==
    <<"A", "B", "C", "D", "E", "F", "G", "H", "I", "J", "K", "L", "M",
      "N", "O", "P", "Q", "R", "S", "T", "U", "V", "W", "X", "Y", "Z">>

LowerSeq ==
    <<"a", "b", "c", "d", "e", "f", "g", "h", "i", "j", "k", "l", "m",
      "n", "o", "p", "q", "r", "s", "t", "u", "v", "w", "x", "y", "z">>

\* lowercase(c) for a supported character c: the lower-case letter of an
\* upper-case letter, the character itself for a digit or the space.
Lowercase(c) ==
    IF \E n \in 1..26 : UpperSeq[n] = c
    THEN LowerSeq[CHOOSE n \in 1..26 : UpperSeq[n] = c]
    ELSE c

\* Time a pulse keeps the line high, and time from the start of the first
\* pulse of a code to the end of the gap after its last pulse.
PulseTime(symbol) == IF symbol = "." THEN DOT ELSE 3 * DOT

RECURSIVE CodeSpan(_)
CodeSpan(code) ==
    IF code = <<>> THEN 0
    ELSE CodeSpan(SubSeq(code, 1, Len(code) - 1)) + PulseTime(code[Len(code)]) + DOT

MorseTokens == SelectSeq(log, LAMBDA e : e.ev = "print" /\ e.what = "morse")

\* The observable behaviour of a completed run on a one-character message
\* is the one fixed by the code `code`: that token is printed in every
\* pass, the pulses are those of the code, and every pulse starts and ends
\* at the time the code fixes.
BehavesAs(code) ==
    LET g == GpioLog
        period == CodeSpan(code) + 2 * DOT
    IN  /\ Len(MorseTokens) = repetitions
        /\ \A r \in 1..Len(MorseTokens) : MorseTokens[r].tok = code
        /\ PulsesWellFormed
        /\ PulseTrain = Repeat(code, repetitions)
        /\ \A r \in 1..repetitions, n \in 1..Len(code) :
              LET p == (r - 1) * Len(code) + n
                  start == (r - 1) * period + CodeSpan(SubSeq(code, 1, n - 1))
              IN  /\ g[3 + 2 * p].at = start
                  /\ g[4 + 2 * p].at = start + PulseTime(code[n])
        /\ clock = repetitions * period

\* C11: for every supported character c (A-Z, 0-9), a run that sends c and
\* a run that sends lowercase(c) behave the same: same symbol sequence, same
\* pin trace (calls and times), same printed token, all fixed by the code
\* the table gives for c.
C11_CaseInsensitive ==
    CompletedRun /\ Len(message) = 1
        => \A c \in UpperLetters \cup Digits :
              message = <<c>> \/ message = <<Lowercase(c)>> => BehavesAs(MORSE_CODE[c])

C11_Witness ==
    /\ CompletedRun
    /\ message = <<"q">>
    /\ Lowercase("Q") = "q"
    /\ repetitions = 3
    /\ PulseTrain = Repeat(<<"-", "-", ".", "-">>, 3)
    /\ MorseTokens[1].tok = <<"-", "-", ".", "-">>

(***************************************************************************)
(* Printed output.                                                         *)
(***************************************************************************)
Prints == SelectSeq(log, LAMBDA e : e.ev = "print")

PrintedItems == [k \in 1..Len(Prints) |-> <<Prints[k].what, Prints[k].tok>>]

\* What one pass prints: the token of every character that has a code (a
\* letter or digit of the table after upper()), nothing for a space or a
\* character without a code, then the newline of line 79.
RECURSIVE PassTokens(_)
PassTokens(m) ==
    IF m = <<>> THEN <<>>
    ELSE (IF CharSymbols(Head(m)) = <<>>
          THEN <<>>
          ELSE << <<"morse", CharSymbols(Head(m))>> >>) \o PassTokens(Tail(m))

PassPrints(m) == PassTokens(m) \o << <<"newline", <<>>>> >>

BannerPrints == << <<"sending", <<>>>>, <<"pattern", <<>>>> >>

NewlinesPrinted == Len(SelectSeq(log, LAMBDA e : e.ev = "print" /\ e.what = "newline"))

\* C12: in an uninterrupted run the output after the banner is, for each of
\* the N passes, the tokens of the message's letters and digits in order
\* (none for spaces and characters without a code) and then a newline, and
\* "Transmission complete!" is printed once, after all N passes.
C12_PrintedOutput ==
    /\ CompletedRun
          => PrintedItems =
                BannerPrints \o Repeat(PassPrints(message), repetitions)
                             \o << <<"complete", <<>>>> >>
    /\ log # <<>> /\ LastEvent.ev = "print" /\ LastEvent.what = "complete"
          => /\ NewlinesPrinted = repetitions
             /\ Len(SelectSeq(log, LAMBDA e : e.ev = "print" /\ e.what = "complete")) = 1

C12_Witness ==
    /\ CompletedRun
    /\ message = <<"E", "!", " ", "t">>
    /\ repetitions = 3
    /\ Len(PrintedItems) = 12
    /\ PrintedItems[3] = <<"morse", <<".">>>>
    /\ PrintedItems[4] = <<"morse", <<"-">>>>
    /\ PrintedItems[5] = <<"newline", <<>>>>

(***************************************************************************)
(* Pulse lengths and the ratios of the timing constants.                   *)
(***************************************************************************)
\* Units tried for line 11.
MaxUnit == 5

\* A pulse has just ended: the latest event is the deassert of send_dot or
\* of send_dash.
PulseEnded ==
    /\ pc \in {"dot_gap", "dash_gap"}
    /\ log # <<>>
    /\ IsDeassert(LastEvent)

\* Time the line stayed high in the pulse that has just ended.
LatestHighTime == LET g == GpioLog IN g[Len(g)].at - g[Len(g) - 1].at

\* C13: send_dot holds the line high for exactly one unit and send_dash for
\* exactly three; and for every unit > 0 the constants keep dash = 3 dot,
\* symbol_gap = dot, letter_gap = 3 symbol_gap, word_gap = 7 symbol_gap.
C13_PulseLengthsAndRatios ==
    /\ PulseEnded
          => /\ GpioLog[Len(GpioLog) - 1].what = "HIGH"
             /\ pc = "dot_gap" => morse[si] = "." /\ LatestHighTime = DOT
             /\ pc = "dash_gap" => morse[si] = "-" /\ LatestHighTime = 3 * DOT
    /\ DASH = 3 * DOT
    /\ SYMBOL_SPACE = DOT
    /\ LETTER_SPACE = 3 * SYMBOL_SPACE
    /\ WORD_SPACE = 7 * SYMBOL_SPACE
    /\ \A unit \in 1..MaxUnit :
          /\ Dash(unit) = 3 * unit
          /\ SymbolSpace(unit) = unit
          /\ LetterSpace(unit) = 3 * SymbolSpace(unit)
          /\ WordSpace(unit) = 7 * SymbolSpace(unit)

C13_Witness ==
    /\ PulseEnded
    /\ pc = "dash_gap"
    /\ LatestHighTime = 3 * DOT
    /\ \E k \in 1..(Len(GpioLog) - 2) :
          /\ GpioLog[k].what = "HIGH"
          /\ GpioLog[k + 1].what = "LOW"
          /\ GpioLog[k + 1].at - GpioLog[k].at = DOT

(***************************************************************************)
(* After an interruption.                                                  *)
(***************************************************************************)
\* The first interruption was raised in the try body (setup_gpio, the
\* passes, the closing print).
InterruptedInRun == Interrupts # <<>> /\ Interrupts[1].what \in TryBody

NoticeCount == Len(SelectSeq(log, IsNotice))

CompletePrinted == \E k \in 1..Len(log) : log[k].ev = "print" /\ log[k].what = "complete"

\* C14: once an interruption is raised during a run the line is never
\* asserted again, no further symbol, character or pass is sent (no token,
\* no sleep, no call of send_message), "Transmission complete!" is not
\* printed, and the interruption notice is printed once.
C14_NothingAfterInterrupt ==
    InterruptedInRun
        => /\ pc \in {"except", "cleanup_low", "cleanup_release", "exited"}
           /\ LastEvent.ev # "interrupt"
                 => \/ IsNotice(LastEvent)
                    \/ IsDeassert(LastEvent)
                    \/ LastEvent.ev = "gpio" /\ LastEvent.what = "cleanup"
           /\ ~CompletePrinted
           /\ NoticeCount <= 1
           /\ Done /\ Len(Interrupts) = 1 => NoticeCount = 1

C14_Witness ==
    /\ Done
    /\ Len(Interrupts) = 1
    /\ Interrupts[1].what = "dot_hold"
    /\ Interrupts[1].rep = 1
    /\ repetitions = 3
    /\ NoticeCount = 1
    /\ ~CompletePrinted

(***************************************************************************)
(* Between two passes.                                                     *)
(***************************************************************************)
\* The latest pulse is the first one of a pass and the pulse before it the
\* last one of the pass before.
CrossPassPair ==
    /\ PulseStarted
    /\ LET g == GpioLog
       IN  PulseGapAt(g, Len(g) - 1) /\ g[Len(g) - 1].rep + 1 = g[Len(g)].rep

HasSupported == \E k \in 1..Len(message) : message[k] \in AlphaNum

\* C15 as stated: between two passes of a message that holds a letter or
\* digit the silence from the last pulse of one pass to the first pulse of
\* the next is exactly LETTER_SPACE (3 units) when the message begins and
\* ends with a letter or digit, exactly WORD_SPACE (7 units) when it has a
\* leading or a trailing space, and never another value.
C15_PassGapThreeOrSeven ==
    CrossPassPair /\ HasSupported
        => /\ message[1] \in AlphaNum /\ message[Len(message)] \in AlphaNum
                 => LatestSilence = 3 * DOT
           /\ message[1] = " " \/ message[Len(message)] = " "
                 => LatestSilence = 7 * DOT
           /\ LatestSilence \in {3 * DOT, 7 * DOT}

\* C15 amended: that silence is LETTER_SPACE plus (WORD_SPACE -
\* LETTER_SPACE) for every space sent between the two pulses (the trailing
\* spaces of one pass and the leading spaces of the next): 3 units when the
\* message begins and ends with a letter or digit, 7 units for one such
\* space, 4 units more for every further one.
C15_PassGapPerSpace ==
    CrossPassPair /\ HasSupported
        => /\ LatestSilence = 3 * DOT + LatestSpaces * (7 * DOT - 3 * DOT)
           /\ message[1] \in AlphaNum /\ message[Len(message)] \in AlphaNum
                 => LatestSilence = 3 * DOT
           /\ LatestSpaces = 1 => LatestSilence = 7 * DOT

C15_Witness ==
    /\ CrossPassPair
    /\ HasSupported
    /\ message[Len(message)] = " "
    /\ LatestSpaces = 1
    /\ LatestSilence = 7 * DOT

(***************************************************************************)
(* Time spent per character.                                               *)
(***************************************************************************)
CountOf(symbol, code) == Cardinality({n \in 1..Len(code) : code[n] = symbol})

\* The time send_character blocks for a character, in the claim's terms:
\* 2d + 4h + 2 units for a character whose code has d dots and h dashes,
\* 4 units for a space, nothing for a character without a code.
CharTime(c) ==
    IF c = " " THEN 4 * DOT
    ELSE IF CharSymbols(c) = <<>> THEN 0
    ELSE (2 * CountOf(".", CharSymbols(c)) + 4 * CountOf("-", CharSymbols(c)) + 2) * DOT

RECURSIVE MessageTime(_)
MessageTime(m) == IF m = <<>> THEN 0 ELSE CharTime(Head(m)) + MessageTime(Tail(m))

\* Nothing but the sleep of line 57 was done for the character just left.
OnlyWordHold ==
    /\ LastEvent.ev = "sleep"
    /\ LastEvent.what = "word_hold"
    /\ LastEvent.rep = i
    /\ LastEvent.idx = ci
    /\ clock - LastEvent.at = 4 * DOT
    /\ ~(log[Len(log) - 1].rep = i /\ log[Len(log) - 1].idx = ci)

\* C16: whenever send_message is between two characters, the time slept so
\* far is the sum of the times of the characters sent: each letter or digit
\* took 2d + 4h + 2 units, each space 4 units with no pin operation, each
\* character without a code no time; a whole pass takes the sum over the
\* message.
C16_CharacterTime ==
    pc = "for_char"
        => /\ clock = (i - 1) * MessageTime(message) + MessageTime(SubSeq(message, 1, ci))
           /\ ci >= 1 /\ message[ci] = " " => OnlyWordHold

C16_Witness ==
    /\ pc = "for_char"
    /\ message = HelloESP32
    /\ i = 1
    /\ ci = Len(message)
    /\ clock = 116 * DOT

(***************************************************************************)
(* Phases of a run.                                                        *)
(***************************************************************************)
Acquiring == {"setmode", "setwarnings", "setup", "setup_low"}

Releasing == ExceptClause \cup FinallyClause

Transmitting == TryBody \ Acquiring

\* The phase control is in: setup_gpio is Acquiring, the loops of lines
\* 104-107 are Transmitting, the except and finally clauses are Releasing,
\* and the program is Idle before the try statement and once it has exited.
Phase(p) ==
    IF p \in Acquiring THEN "Acquiring"
    ELSE IF p \in Transmitting THEN "Transmitting"
    ELSE IF p \in Releasing THEN "Releasing"
    ELSE "Idle"

PhaseEdges ==
    {<<"Idle", "Acquiring">>, <<"Acquiring", "Transmitting">>,
     <<"Transmitting", "Releasing">>, <<"Releasing", "Idle">>}

PhaseStep ==
    /\ Phase(pc) # Phase(pc') => <<Phase(pc), Phase(pc')>> \in PhaseEdges
    /\ line # "HIGH" /\ line' = "HIGH" => Phase(pc) = "Transmitting"

\* C17: every step of a run stays in its phase or follows one of the edges
\* Idle -> Acquiring -> Transmitting -> Releasing -> Idle, so Releasing is
\* entered only from Transmitting, and the line is asserted only in
\* Transmitting.
C17_PhaseTransitions == [][PhaseStep]_vars

(***************************************************************************)
(* Silence between pulses.                                                 *)
(***************************************************************************)
\* A pulse has just started and another pulse came before it.
ConsecutivePulses ==
    /\ PulseStarted
    /\ LET g == GpioLog
       IN  /\ Len(g) >= 3
           /\ g[Len(g) - 2].what = "HIGH"
           /\ g[Len(g) - 1].what = "LOW"

\* Those two pulses are symbols of the code of one character.
SameCharacter ==
    LET g == GpioLog IN StreamPos(g[Len(g) - 1]) = StreamPos(g[Len(g)])

\* C18: between two pulses of one character's code the line is silent for
\* exactly SYMBOL_SPACE (1 unit), and between any two pulses that follow
\* each other in a transmission it is silent for at least 1 unit.
C18_SymbolGap ==
    ConsecutivePulses
        => /\ SameCharacter => LatestSilence = 1 * DOT
           /\ LatestSilence >= 1 * DOT

C18_Witness ==
    /\ ConsecutivePulses
    /\ SameCharacter
    /\ LatestSilence = 1 * DOT
    /\ message = SOS
    /\ morse = <<"-", "-", "-">>

(***************************************************************************)
(* The level of the line.                                                  *)
(***************************************************************************)
\* Control is inside a pulse: between the GPIO.output(HIGH) and the
\* GPIO.output(LOW) of send_dot or send_dash.
InPulse == {"dot_hold", "dot_low", "dash_hold", "dash_low"}

\* After setup_gpio and outside a pulse the line is LOW: during the gap
\* sleeps, at the prints of the loops, and where send_dot, send_dash,
\* send_character and send_message return to.
LowOutsidePulse == pc \in Transmitting \ InPulse => line = "LOW"

\* The driver calls of the transmission alternate, the first being an
\* assert: an assert follows a deassert (that of setup_gpio for the first
\* one), and a deassert of send_dot or send_dash follows an assert.
AssertsAlternate ==
    log # <<>> /\ LastEvent.ev = "gpio"
        => LET g == GpioLog
           IN  /\ LastEvent.what = "HIGH" => Len(g) >= 2 /\ g[Len(g) - 1].what = "LOW"
               /\ LastEvent.what = "LOW" /\ pc \in {"dot_gap", "dash_gap"}
                     => Len(g) >= 2 /\ g[Len(g) - 1].what = "HIGH"

JustPrinted == log # <<>> /\ LastEvent.ev = "print"

\* The run was interrupted first while control was inside a pulse.
InterruptedInPulse == Interrupts # <<>> /\ Interrupts[1].what \in InPulse

\* C19 as stated: in every reachable state the line is HIGH only inside a
\* pulse of send_dot or send_dash, it is LOW after setup outside a pulse and
\* not HIGH at any print, and asserts and deasserts alternate.
C19_LineHighOnlyInPulse ==
    /\ line = "HIGH" => pc \in InPulse
    /\ LowOutsidePulse
    /\ JustPrinted => line # "HIGH"
    /\ AssertsAlternate

\* C19 amended: the line is HIGH only inside a pulse, or after a
\* KeyboardInterrupt that arrived inside a pulse: then it stays HIGH through
\* the except clause, notice included, until cleanup_gpio deasserts it; it is
\* HIGH at exit only when a second KeyboardInterrupt kept cleanup_gpio from
\* doing so.  Outside a pulse the transmission finds it LOW, every print
\* other than the notice happens with the line not HIGH, and asserts and
\* deasserts alternate.
C19_LineHighInPulseOrInterrupted ==
    /\ line = "HIGH" /\ pc \notin InPulse
          => /\ InterruptedInPulse
             /\ \/ pc \in {"except", "cleanup_low"}
                \/ pc = "exited" /\ Len(Interrupts) >= 2
    /\ LowOutsidePulse
    /\ JustPrinted /\ ~IsNotice(LastEvent) => line # "HIGH"
    /\ AssertsAlternate

C19_Witness ==
    /\ pc = "cleanup_low"
    /\ line = "HIGH"
    /\ JustPrinted
    /\ IsNotice(LastEvent)
    /\ Len(Interrupts) = 1
    /\ Interrupts[1].what = "dash_hold"

====
